---- MODULE Spec2Model ----
(***************************************************************************)
(* Model of the keyframe animation sampler of homework1: class Animator    *)
(* (animator.h, animator.cpp).                                             *)
(*                                                                         *)
(* Times and vector components are exact numbers in half units: the float  *)
(* 0.5 is the integer 1, the float 1.0 is the integer 2.  Quotients are    *)
(* kept as reduced fractions <<num, den>>; a division by zero gives the    *)
(* fraction <<0, 0>>, which stands for the non-finite floats (NaN, +-Inf). *)
(*                                                                         *)
(* assert() is modelled as compiled in (NDEBUG not defined): a failed      *)
(* assertion aborts the process before the statement after it runs.        *)
(* An out-of-range operator[] on a std::vector is undefined behaviour; it  *)
(* is modelled as a choice between the process crashing and the read       *)
(* returning an arbitrary value.                                           *)
(***************************************************************************)
EXTENDS Integers, Sequences, FiniteSets, TLC

VARIABLES
    timelineIndex,  \* int Animator::timelineIndex
    currentTime,    \* float Animator::currentTime
    times,          \* std::vector<float> Animator::times
    translation,    \* std::vector<glm::vec3> Animator::translation
    scale,          \* std::vector<glm::vec3> Animator::scale
    rotation,       \* std::vector<glm::vec4> Animator::rotation
    outcome,        \* how the last call ended: "ok", "AssertFailed", "Crash"
    call,           \* the last call: its name, its arguments, what it read and returned
    loaded,         \* the setters that have returned at least once
    pair,           \* two further Animator objects, copies of the first
    transforms,     \* the Transform objects
    previous        \* the call before the last updateAnimation call, where ticks are compared

vars == <<timelineIndex, currentTime, times, translation, scale, rotation, outcome, call,
          loaded, pair, transforms, previous>>

-----------------------------------------------------------------------------
(* Bounds of the model.                                                    *)

MaxLen == 3         \* longest vector passed to a setter
MaxSample == 2      \* largest time sample, in whole units
MaxIndex == 1       \* largest timeline index passed to setTimes
MaxDelta == 3       \* largest deltaTime passed to updateAnimation, in half units
TimeCap == 5        \* ticks whose currentTime + deltaTime leaves -1..TimeCap are not explored

-----------------------------------------------------------------------------
(* Values.                                                                 *)

\* size_t arithmetic wraps; the model's size_t is 30 bits wide, far above
\* every vector length of the model, as the platform's 64 bits are.
SizeModulus == 2^30

ToSizeT(i) == i % SizeModulus

\* the float samples a timeline can hold: whole units, in half units
SampleValues == {2 * k : k \in 0..MaxSample}

RECURSIVE IncreasingFrom(_, _)
IncreasingFrom(n, lowest) ==
    IF n = 0 THEN {<<>>}
    ELSE UNION {{<<v>> \o rest : rest \in IncreasingFrom(n - 1, v + 1)} :
                    v \in {w \in SampleValues : w >= lowest}}

\* the inTimes arguments: every strictly increasing sequence of samples up
\* to MaxLen long
Timelines == UNION {IncreasingFrom(n, 0) : n \in 0..MaxLen}

\* the inTimelineIndex arguments
TimelineIndices == -1..MaxIndex

\* the inTrans arguments: the samples (i, 0, 0) and (i, i, 0), i = 0, 1, ...
TransSamples(n, k) == [i \in 1..n |-> <<2 * (i - 1), 2 * k * (i - 1), 0>>]

\* the inRots arguments (x, y, z, w)
RotSamples(n) == [i \in 1..n |-> <<0, 0, i - 1, 2>>]

\* the inScales arguments
ScaleSamples(n) == [i \in 1..n |-> <<2 * i, 2 * i, 2 * i>>]

\* the deltaTime arguments, in half units
Deltas == -1..MaxDelta

\* currentTime has no initializer: its first value is indeterminate
IndeterminateTimes == {0, 3}

\* the further Animator objects, and one that is not constructed yet; pending
\* holds the execution of an updateAnimation call that has not stored
\* currentTime yet
Instances == {1, 2}
NotConstructed ==
    [constructed |-> FALSE, timelineIndex |-> -1, currentTime |-> 0, times |-> <<>>,
     translation |-> <<>>, scale |-> <<>>, rotation |-> <<>>, pending |-> {}]

\* the Transform objects, and one that is not constructed yet
TransformIds == {1, 2}
NoTransform ==
    [constructed |-> FALSE, scale |-> <<0, 0, 0>>, rotation |-> <<0, 0, 0, 0>>,
     translation |-> <<0, 0, 0>>]

-----------------------------------------------------------------------------
(* Construction.                                                           *)

Init ==
    /\ timelineIndex = -1
    /\ currentTime \in IndeterminateTimes
    /\ times = <<>>
    /\ translation = <<>>
    /\ scale = <<>>
    /\ rotation = <<>>
    /\ outcome = "ok"
    /\ call = [op |-> "Animator"]
    /\ loaded = {}
    /\ pair = [i \in Instances |-> NotConstructed]
    /\ transforms = [i \in TransformIds |-> NoTransform]
    /\ previous = [op |-> "Animator"]

\* a process that aborted or crashed makes no further call
Alive == outcome = "ok"

\* the setter op returns, unless its assertion failed
Returns(op) == loaded' = IF outcome' = "ok" THEN loaded \cup {op} ELSE loaded

-----------------------------------------------------------------------------
(* Setters.                                                                *)

\* a setTimes that asserts the timeline is unset, as the other setters do
SetTimesOnce(inTimelineIndex, inTimes) ==
    /\ Alive
    /\ call' = [op |-> "setTimes", inTimelineIndex |-> inTimelineIndex, inTimes |-> inTimes,
                line |-> 54]
    /\ IF timelineIndex = -1 /\ Len(times) = 0
       THEN /\ timelineIndex' = inTimelineIndex
            /\ times' = inTimes
            /\ outcome' = "ok"
       ELSE /\ outcome' = "AssertFailed"
            /\ UNCHANGED <<timelineIndex, times>>
    /\ Returns("setTimes")
    /\ UNCHANGED <<currentTime, translation, scale, rotation, pair, transforms, previous>>

\* line is the branch taken: 54 stores the timeline, 59 asserts the index
SetTimes(inTimelineIndex, inTimes) ==
    /\ Alive
    /\ call' = [op |-> "setTimes", inTimelineIndex |-> inTimelineIndex, inTimes |-> inTimes,
                line |-> IF timelineIndex = -1 THEN 54 ELSE 59]
    /\ IF timelineIndex = -1
       THEN /\ timelineIndex' = inTimelineIndex
            /\ times' = inTimes
            /\ outcome' = "ok"
       ELSE /\ outcome' = IF timelineIndex = inTimelineIndex THEN "ok" ELSE "AssertFailed"
            /\ UNCHANGED <<timelineIndex, times>>
    /\ Returns("setTimes")
    /\ UNCHANGED <<currentTime, translation, scale, rotation, pair, transforms, previous>>

\* a setTranslation that stores before it checks nothing
SetTranslationUnchecked(inTrans) ==
    /\ Alive
    /\ call' = [op |-> "setTranslation", inTrans |-> inTrans]
    /\ translation' = inTrans
    /\ outcome' = "ok"
    /\ Returns("setTranslation")
    /\ UNCHANGED <<timelineIndex, currentTime, times, scale, rotation, pair, transforms, previous>>

SetTranslation(inTrans) ==
    /\ Alive
    /\ call' = [op |-> "setTranslation", inTrans |-> inTrans]
    /\ IF Len(translation) = 0
       THEN /\ translation' = inTrans
            /\ outcome' = "ok"
       ELSE /\ outcome' = "AssertFailed"
            /\ UNCHANGED translation
    /\ Returns("setTranslation")
    /\ UNCHANGED <<timelineIndex, currentTime, times, scale, rotation, pair, transforms, previous>>

SetRotation(inRots) ==
    /\ Alive
    /\ call' = [op |-> "setRotation", inRots |-> inRots]
    /\ IF Len(rotation) = 0
       THEN /\ rotation' = inRots
            /\ outcome' = "ok"
       ELSE /\ outcome' = "AssertFailed"
            /\ UNCHANGED rotation
    /\ Returns("setRotation")
    /\ UNCHANGED <<timelineIndex, currentTime, times, translation, scale, pair, transforms, previous>>

SetScales(inScales) ==
    /\ Alive
    /\ call' = [op |-> "setScales", inScales |-> inScales]
    /\ IF Len(scale) = 0
       THEN /\ scale' = inScales
            /\ outcome' = "ok"
       ELSE /\ outcome' = "AssertFailed"
            /\ UNCHANGED scale
    /\ Returns("setScales")
    /\ UNCHANGED <<timelineIndex, currentTime, times, translation, rotation, pair, transforms, previous>>

-----------------------------------------------------------------------------
(* Float arithmetic, exact.                                                *)

Abs(x) == IF x < 0 THEN -x ELSE x

RECURSIVE GCD(_, _)
GCD(a, b) == IF b = 0 THEN a ELSE GCD(b, a % b)

NonFinite == <<0, 0>>

\* the float quotient n / d; x / 0 is NaN or +-Inf
Frac(n, d) ==
    IF d = 0 THEN NonFinite
    ELSE LET g == GCD(Abs(n), Abs(d))
             sgn == IF d < 0 THEN -1 ELSE 1
         IN  <<sgn * (n \div g), sgn * (d \div g)>>

\* glm::mix(x, y, a) = x * (1 - a) + y * a on one component, a = <<n, d>>
MixComponent(x, y, a) ==
    IF a = NonFinite THEN NonFinite
    ELSE Frac(x * (a[2] - a[1]) + y * a[1], a[2])

\* a mix with its end points exchanged
MixSwapped(f, s, a) == [c \in 1..3 |-> MixComponent(s[c], f[c], a)]

Mix(f, s, a) == [c \in 1..3 |-> MixComponent(f[c], s[c], a)]

-----------------------------------------------------------------------------
(* std::upper_bound and std::vector::operator[].                           *)

\* std::upper_bound over [first, first + len): the first position whose
\* element is greater than val, found by bisection; positions count from 0
RECURSIVE UpperBoundFrom(_, _, _, _)
UpperBoundFrom(s, first, len, val) ==
    IF len <= 0 THEN first
    ELSE LET half == len \div 2
             middle == first + half
         IN  IF val < s[middle + 1]
             THEN UpperBoundFrom(s, first, half, val)
             ELSE UpperBoundFrom(s, middle + 1, len - half - 1, val)

UpperBound(s, val) == UpperBoundFrom(s, 0, Len(s), val)

InRange(vec, i) == 0 <= i /\ i < Len(vec)

\* what an out-of-range read can return when it does not crash
GarbageFloats == {0, 2}
GarbageVecs == {<<0, 0, 0>>, <<2, 2, 2>>}

\* vec[i], i counted from 0: the element, or undefined behaviour out of range
Subscript(vec, i, garbage) ==
    IF InRange(vec, i)
    THEN {[crash |-> FALSE, value |-> vec[i + 1]]}
    ELSE {[crash |-> TRUE, value |-> CHOOSE g \in garbage : TRUE]}
         \cup {[crash |-> FALSE, value |-> g] : g \in garbage}

-----------------------------------------------------------------------------
(* Animator::updateAnimation.                                              *)

\* a wrap that restarts the clip at 0
WrapTimeRestart(newTime, maxTime) == IF newTime > maxTime THEN 0 ELSE newTime

\* a wrap that takes the remainder, as fmod does
WrapTimeModulo(newTime, maxTime) ==
    IF newTime > maxTime /\ maxTime > 0 THEN newTime % maxTime ELSE newTime

\* a wrap that also fires when newTime equals maxTime
WrapTimeAtOrAbove(newTime, maxTime) ==
    IF newTime >= maxTime THEN newTime - maxTime ELSE newTime

\* line 17-20: one subtraction of maxTime when newTime exceeds it
WrapTime(newTime, maxTime) == IF newTime > maxTime THEN newTime - maxTime ELSE newTime

\* a bracket that starts at the first sample not below newTime
BracketIndexAtOrAbove(inTimes, newTime) ==
    Cardinality({i \in 1..Len(inTimes) : inTimes[i] < newTime}) + 1

\* line 21-24
BracketIndex(inTimes, newTime) == UpperBound(inTimes, newTime)
BracketPrevIndex(index) == ToSizeT(index - 1)

\* line 25
LerpRatio(newTime, timePrev, timeIndex) == Frac(newTime - timePrev, timeIndex - timePrev)

\* the members of this Animator
This ==
    [timelineIndex |-> timelineIndex, currentTime |-> currentTime, times |-> times,
     translation |-> translation, scale |-> scale, rotation |-> rotation]

\* the executions of a.updateAnimation(deltaTime) for an Animator with the
\* members a: each gives the outcome, the currentTime left behind and the
\* record of the call
UpdateAnimationRunsOf(a, deltaTime) ==
    LET sum == a.currentTime + deltaTime
        last == ToSizeT(Len(a.times) - 1)
        \* line is the last source line executed, sum is newTime as line 16
        \* sets it; a local not computed by that line is left 0 or <<>>
        base == [op |-> "updateAnimation", deltaTime |-> deltaTime, line |-> 17,
                 sum |-> sum, newTime |-> 0, index |-> 0, prevIndex |-> 0,
                 lerp_ratio |-> <<>>, retval |-> <<>>, reads |-> {}]
        Crashed(c) == [outcome |-> "Crash", currentTime |-> a.currentTime, call |-> c]
    IN UNION {
        IF rMax.crash
        THEN {Crashed([base EXCEPT !.reads = {<<"times", last>>}])}
        ELSE
          LET newTime == WrapTime(sum, rMax.value)
              index == BracketIndex(a.times, newTime)
              prevIndex == BracketPrevIndex(index)
              c1 == [base EXCEPT !.line = 25, !.newTime = newTime, !.index = index, !.prevIndex = prevIndex,
                                 !.reads = {<<"times", last>>, <<"times", prevIndex>>,
                                            <<"times", index>>}]
          IN UNION {
              IF rPrev.crash \/ rIndex.crash
              THEN {Crashed(c1)}
              ELSE
                LET lerp_ratio == LerpRatio(newTime, rPrev.value, rIndex.value)
                    c2 == [c1 EXCEPT !.line = 28, !.lerp_ratio = lerp_ratio,
                                     !.reads = @ \cup {<<"translation", prevIndex>>,
                                                       <<"translation", index>>}]
                IN {
                    IF f.crash \/ s.crash
                    THEN Crashed(c2)
                    ELSE [outcome |-> "ok", currentTime |-> newTime,
                          call |-> [c2 EXCEPT !.line = 45,
                                             !.retval = Mix(f.value, s.value, lerp_ratio)]]
                    : f \in Subscript(a.translation, prevIndex, GarbageVecs),
                      s \in Subscript(a.translation, index, GarbageVecs) }
              : rPrev \in Subscript(a.times, prevIndex, GarbageFloats),
                rIndex \in Subscript(a.times, index, GarbageFloats) }
        : rMax \in Subscript(a.times, last, GarbageFloats) }

UpdateAnimationRuns(deltaTime) == UpdateAnimationRunsOf(This, deltaTime)

\* an updateAnimation that drops the samples before its bracket
UpdateAnimationConsuming(deltaTime) ==
    /\ Alive
    /\ currentTime + deltaTime \in -1..TimeCap
    /\ \E run \in UpdateAnimationRuns(deltaTime) :
        /\ outcome' = run.outcome
        /\ currentTime' = run.currentTime
        /\ call' = run.call
        /\ translation' = IF run.outcome = "ok" /\ InRange(translation, run.call.prevIndex)
                          THEN SubSeq(translation, run.call.prevIndex + 1, Len(translation))
                          ELSE translation
    /\ UNCHANGED <<timelineIndex, times, scale, rotation, loaded, pair, transforms, previous>>

UpdateAnimation(deltaTime) ==
    /\ Alive
    /\ currentTime + deltaTime \in -1..TimeCap
    /\ \E run \in UpdateAnimationRuns(deltaTime) :
        /\ outcome' = run.outcome
        /\ currentTime' = run.currentTime
        /\ call' = run.call
    /\ UNCHANGED <<timelineIndex, times, translation, scale, rotation, loaded, pair, transforms, previous>>

\* updateAnimation(deltaTime), with the call before it kept in previous
UpdateAnimationAfter(deltaTime) ==
    /\ Alive
    /\ currentTime + deltaTime \in -1..TimeCap
    /\ \E run \in UpdateAnimationRuns(deltaTime) :
        /\ outcome' = run.outcome
        /\ currentTime' = run.currentTime
        /\ call' = run.call
    /\ previous' = call
    /\ UNCHANGED <<timelineIndex, times, translation, scale, rotation, loaded, pair, transforms>>

-----------------------------------------------------------------------------

(* Playback: every timeline and deltaTime, the channels loaded in full or  *)
(* the translation cut short.                                              *)

PlayTransInputs == {TransSamples(n, 0) : n \in 0..MaxLen} \cup {TransSamples(MaxLen, 1)}
PlayRotInputs == {RotSamples(MaxLen)}
PlayScaleInputs == {ScaleSamples(MaxLen)}

Next ==
    \/ \E t \in Timelines : SetTimes(0, t)
    \/ \E v \in PlayTransInputs : SetTranslation(v)
    \/ \E v \in PlayRotInputs : SetRotation(v)
    \/ \E v \in PlayScaleInputs : SetScales(v)
    \/ \E d \in Deltas : UpdateAnimation(d)

Spec == Init /\ [][Next]_vars

(* Loading: every timeline index, vectors that are empty, one short of     *)
(* MaxLen or MaxLen long, and ticks that advance one unit.                   *)

LoadLengths == {0, MaxLen - 1, MaxLen}
LoadTimelines == {[i \in 1..n |-> 2 * (i - 1)] : n \in LoadLengths}
LoadTransInputs == {TransSamples(n, 0) : n \in LoadLengths}
LoadRotInputs == {RotSamples(n) : n \in LoadLengths}
LoadScaleInputs == {ScaleSamples(n) : n \in LoadLengths}
LoadDeltas == {2}

NextLoad ==
    \/ \E i \in TimelineIndices, t \in LoadTimelines : SetTimes(i, t)
    \/ \E v \in LoadTransInputs : SetTranslation(v)
    \/ \E v \in LoadRotInputs : SetRotation(v)
    \/ \E v \in LoadScaleInputs : SetScales(v)
    \/ \E d \in LoadDeltas : UpdateAnimation(d)

SpecLoad == Init /\ [][NextLoad]_vars

-----------------------------------------------------------------------------
(* Several Animator objects: the first one is loaded, the others are       *)
(* copies of it taken after the load, and their updateAnimation calls run  *)
(* on separate threads, the reads of lines 15-43 and the store of line 44  *)
(* as separate steps.                                                      *)

animatorVars ==
    <<timelineIndex, currentTime, times, translation, scale, rotation, call, loaded, previous>>

\* Animator(const Animator&), implicitly declared: a member-wise copy
CopyAnimator(i) ==
    /\ Alive
    /\ ~pair[i].constructed
    /\ pair' = [pair EXCEPT ![i] =
                 [constructed |-> TRUE, timelineIndex |-> timelineIndex,
                  currentTime |-> currentTime, times |-> times, translation |-> translation,
                  scale |-> scale, rotation |-> rotation, pending |-> {}]]
    /\ UNCHANGED <<animatorVars, outcome, transforms>>

\* a store to a currentTime that all the objects share
StoreCurrentTimeShared(p, i, newTime) ==
    [k \in DOMAIN p |-> [p[k] EXCEPT !.currentTime = newTime]]

\* line 44 on object i: currentTime is a non-static member
StoreCurrentTime(p, i, newTime) == [p EXCEPT ![i].currentTime = newTime]

\* lines 15-43 of pair[i].updateAnimation(deltaTime)
PairUpdateAnimationBegin(i, deltaTime) ==
    /\ Alive
    /\ pair[i].constructed
    /\ pair[i].pending = {}
    /\ pair[i].currentTime + deltaTime \in -1..TimeCap
    /\ \E run \in UpdateAnimationRunsOf(pair[i], deltaTime) :
        /\ pair' = [pair EXCEPT ![i].pending = {run}]
        /\ outcome' = run.outcome
    /\ UNCHANGED <<animatorVars, transforms>>

\* lines 44-45 of the same call
PairUpdateAnimationEnd(i) ==
    /\ Alive
    /\ pair[i].pending # {}
    /\ \E run \in pair[i].pending :
        pair' = [StoreCurrentTime(pair, i, run.currentTime) EXCEPT ![i].pending = {}]
    /\ UNCHANGED <<animatorVars, outcome, transforms>>

PairTimeline == [i \in 1..MaxLen |-> 2 * (i - 1)]
PairTrans == TransSamples(MaxLen, 1)
PairDeltas == {1, 2}

NextPair ==
    \/ SetTimes(0, PairTimeline)
    \/ SetTranslation(PairTrans)
    \/ \E i \in Instances : loaded = {"setTimes", "setTranslation"} /\ CopyAnimator(i)
    \/ \E i \in Instances, d \in PairDeltas : PairUpdateAnimationBegin(i, d)
    \/ \E i \in Instances : PairUpdateAnimationEnd(i)

SpecPair == Init /\ [][NextPair]_vars

-----------------------------------------------------------------------------
(* glm vectors, quaternions and matrices, in half units.  A quaternion is  *)
(* <<w, x, y, z>>, a matrix the sequence of its four columns.  The halving *)
(* of a product of two half-unit numbers is exact for the values drawn     *)
(* below: scales are whole numbers, rotations have components that are all *)
(* whole or all odd halves.                                                *)

Half(n) == n \div 2

\* vec3 * vec3 and vec3 + vec3
VecMul(a, b) == [c \in 1..3 |-> Half(a[c] * b[c])]
VecAdd(a, b) == [c \in 1..3 |-> a[c] + b[c]]

\* quat * quat
QuatMul(p, q) ==
    <<Half(p[1] * q[1] - p[2] * q[2] - p[3] * q[3] - p[4] * q[4]),
      Half(p[1] * q[2] + p[2] * q[1] + p[3] * q[4] - p[4] * q[3]),
      Half(p[1] * q[3] + p[3] * q[1] + p[4] * q[2] - p[2] * q[4]),
      Half(p[1] * q[4] + p[4] * q[1] + p[2] * q[3] - p[3] * q[2])>>

\* the sum of the squared components, in quarter units
QuatDot(q) == q[1] * q[1] + q[2] * q[2] + q[3] * q[3] + q[4] * q[4]

\* sqrt, for the squares that occur
Sqrt(n) == CHOOSE r \in 0..n : r * r <= n /\ (r + 1) * (r + 1) > n

IdentityQuat == <<2, 0, 0, 0>>
ZeroQuat == <<0, 0, 0, 0>>

\* a normalize that returns its argument
NormalizeSkipped(q) == q

\* glm::normalize(quat): the identity for a length of zero, else q / length
Normalize(q) ==
    LET len == Sqrt(QuatDot(q))
    IN  IF len <= 0 THEN IdentityQuat
        ELSE [c \in 1..4 |-> (2 * q[c]) \div len]

\* glm::mat3_cast, as columns
Mat3Cast(q) ==
    LET w == q[1]
        x == q[2]
        y == q[3]
        z == q[4]
    IN  <<(<<2 - (y * y + z * z), x * y + w * z, x * z - w * y>>),
          (<<x * y - w * z, 2 - (x * x + z * z), y * z + w * x>>),
          (<<x * z + w * y, y * z - w * x, 2 - (x * x + y * y)>>)>>

\* glm::mat4(quat) = mat4(mat3_cast(q))
Mat4Cast(q) ==
    LET m == Mat3Cast(q)
    IN  <<(<<m[1][1], m[1][2], m[1][3], 0>>),
          (<<m[2][1], m[2][2], m[2][3], 0>>),
          (<<m[3][1], m[3][2], m[3][3], 0>>),
          (<<0, 0, 0, 2>>)>>

\* glm::mat4(1.0f)
IdentityMat4 ==
    <<(<<2, 0, 0, 0>>), (<<0, 2, 0, 0>>), (<<0, 0, 2, 0>>), (<<0, 0, 0, 2>>)>>

\* glm::translate(m, v): the last column becomes m[0]*v[0] + m[1]*v[1] +
\* m[2]*v[2] + m[3]
Translate(m, v) ==
    <<m[1], m[2], m[3],
      [r \in 1..4 |-> Half(m[1][r] * v[1] + m[2][r] * v[2] + m[3][r] * v[3]) + m[4][r]]>>

\* mat4 * mat4: column c is the sum over k of a[k] * b[c][k]
MatMul(a, b) ==
    [c \in 1..4 |-> [r \in 1..4 |->
        Half(a[1][r] * b[c][1] + a[2][r] * b[c][2] + a[3][r] * b[c][3] + a[4][r] * b[c][4])]]

\* glm::scale(m, v): the first three columns times v[0], v[1], v[2]
Scale(m, v) ==
    <<[r \in 1..4 |-> Half(m[1][r] * v[1])],
      [r \in 1..4 |-> Half(m[2][r] * v[2])],
      [r \in 1..4 |-> Half(m[3][r] * v[3])],
      m[4]>>

-----------------------------------------------------------------------------
(* class Transform.                                                        *)

\* the largest scale component, in whole units, and the largest translation
\* component, in half units, an accumulate call is let reach
MaxScale == 9
MaxTranslation == 6

\* the arguments: scales (1,1,1) and (1,2,3); the rotations 1,
\* (1+i+j+k)/2 and its double; translations 0 and (0.5,1,1.5)
ScaleInputs == {<<2, 2, 2>>, <<2, 4, 6>>}
RotationInputs == {IdentityQuat, <<1, 1, 1, 1>>, <<2, 2, 2, 2>>}
TranslationInputs == {<<0, 0, 0>>, <<1, 2, 3>>}

\* glm::quat(): zero when the library defaults its constructors and the
\* member is value-initialized, the identity when it initializes them
DefaultQuats == {ZeroQuat, IdentityQuat}

transformUnchanged ==
    <<timelineIndex, currentTime, times, translation, scale, rotation, outcome, loaded, pair,
      previous>>

\* Transform()
DefaultTransform(i) ==
    /\ ~transforms[i].constructed
    /\ \E q \in DefaultQuats :
        transforms' = [transforms EXCEPT ![i] =
            [constructed |-> TRUE, scale |-> <<2, 2, 2>>, rotation |-> q,
             translation |-> <<0, 0, 0>>]]
    /\ call' = [op |-> "Transform", self |-> i, in |-> 0]
    /\ UNCHANGED transformUnchanged

\* Transform(const Transform& inTrans)
CopyTransform(i, j) ==
    /\ ~transforms[i].constructed
    /\ transforms[j].constructed
    /\ transforms' = [transforms EXCEPT ![i] = transforms[j]]
    /\ call' = [op |-> "Transform", self |-> i, in |-> j]
    /\ UNCHANGED transformUnchanged

\* Transform(inScale, inRot, inTranslation)
MakeTransform(i, inScale, inRot, inTranslation) ==
    /\ ~transforms[i].constructed
    /\ transforms' = [transforms EXCEPT ![i] =
            [constructed |-> TRUE, scale |-> inScale, rotation |-> inRot,
             translation |-> inTranslation]]
    /\ call' = [op |-> "Transform", self |-> i, in |-> 0]
    /\ UNCHANGED transformUnchanged

TransformSetScale(i, inScale) ==
    /\ transforms[i].constructed
    /\ transforms' = [transforms EXCEPT ![i].scale = inScale]
    /\ call' = [op |-> "setScale", self |-> i, in |-> 0]
    /\ UNCHANGED transformUnchanged

TransformSetRotation(i, inQuat) ==
    /\ transforms[i].constructed
    /\ transforms' = [transforms EXCEPT ![i].rotation = inQuat]
    /\ call' = [op |-> "setRotation", self |-> i, in |-> 0]
    /\ UNCHANGED transformUnchanged

TransformSetTranslation(i, inTranslation) ==
    /\ transforms[i].constructed
    /\ transforms' = [transforms EXCEPT ![i].translation = inTranslation]
    /\ call' = [op |-> "setTranslation", self |-> i, in |-> 0]
    /\ UNCHANGED transformUnchanged

\* the members of t after t.accumulate(in); each member of in is read once,
\* before the member of t of the same name is assigned
Accumulated(t, in) ==
    [t EXCEPT !.rotation = Normalize(QuatMul(t.rotation, in.rotation)),
              !.scale = VecMul(t.scale, in.scale),
              !.translation = VecAdd(t.translation, in.translation)]

WithinExtent(t) ==
    \A c \in 1..3 :
        /\ t.scale[c] <= 2 * MaxScale
        /\ t.translation[c] <= MaxTranslation

\* transforms[i].accumulate(transforms[j]); j may be i
Accumulate(i, j) ==
    /\ transforms[i].constructed
    /\ transforms[j].constructed
    /\ WithinExtent(Accumulated(transforms[i], transforms[j]))
    /\ transforms' = [transforms EXCEPT ![i] = Accumulated(transforms[i], transforms[j])]
    /\ call' = [op |-> "accumulate", self |-> i, in |-> j]
    /\ UNCHANGED transformUnchanged

\* a toMaterix4 that scales before it rotates
ToMaterix4ScaleFirst(t) ==
    MatMul(Scale(Translate(IdentityMat4, t.translation), t.scale), Mat4Cast(t.rotation))

\* the matrix t.toMaterix4() returns
ToMaterix4(t) ==
    Scale(MatMul(Translate(IdentityMat4, t.translation), Mat4Cast(t.rotation)), t.scale)

\* transforms[i].toMaterix4()
CallToMaterix4(i) ==
    /\ transforms[i].constructed
    /\ call' = [op |-> "toMaterix4", self |-> i, in |-> 0, retval |-> ToMaterix4(transforms[i])]
    /\ UNCHANGED <<transformUnchanged, transforms>>

NextTransform ==
    \/ \E i \in TransformIds : DefaultTransform(i)
    \/ \E i, j \in TransformIds : CopyTransform(i, j)
    \/ \E i \in TransformIds, s \in ScaleInputs, q \in RotationInputs, t \in TranslationInputs :
          MakeTransform(i, s, q, t)
    \/ \E i \in TransformIds, s \in ScaleInputs : TransformSetScale(i, s)
    \/ \E i \in TransformIds, q \in RotationInputs : TransformSetRotation(i, q)
    \/ \E i \in TransformIds, t \in TranslationInputs : TransformSetTranslation(i, t)
    \/ \E i, j \in TransformIds : Accumulate(i, j)
    \/ \E i \in TransformIds : CallToMaterix4(i)

SpecTransform == Init /\ [][NextTransform]_vars

-----------------------------------------------------------------------------
(* Sorted timelines with repeated samples: every non-decreasing timeline,  *)
(* the translation loaded in full.                                         *)

RECURSIVE NonDecreasingFrom(_, _)
NonDecreasingFrom(n, lowest) ==
    IF n = 0 THEN {<<>>}
    ELSE UNION {{<<v>> \o rest : rest \in NonDecreasingFrom(n - 1, v)} :
                v \in {x \in SampleValues : x >= lowest}}

SortedTimelines == UNION {NonDecreasingFrom(n, 0) : n \in 0..MaxLen}

NextSorted ==
    \/ \E t \in SortedTimelines : SetTimes(0, t)
    \/ SetTranslation(TransSamples(MaxLen, 1))
    \/ \E d \in Deltas : UpdateAnimation(d)

SpecSorted == Init /\ [][NextSorted]_vars

-----------------------------------------------------------------------------
(* Elapsed time split into ticks: every strictly increasing timeline, the  *)
(* translation loaded in full, and after the load ticks that do not go     *)
(* back in time.                                                           *)

SplitDeltas == 0..MaxDelta

NextSplit ==
    \/ \E t \in Timelines : SetTimes(0, t)
    \/ SetTranslation(TransSamples(MaxLen, 1))
    \/ \E d \in SplitDeltas :
          loaded = {"setTimes", "setTranslation"} /\ UpdateAnimationAfter(d)

SpecSplit == Init /\ [][NextSplit]_vars

-----------------------------------------------------------------------------
(* Properties of the bracket search of updateAnimation.                    *)

N == Len(times)

StrictlyIncreasing(s) == \A i \in 1..(Len(s) - 1) : s[i] < s[i + 1]

\* the last call was updateAnimation and it got as far as the bracket search
BracketComputed == call.op = "updateAnimation" /\ call.line >= 25

ReadsInRange ==
    \A r \in call.reads :
        InRange(IF r[1] = "times" THEN times ELSE translation, r[2])

\* C1: for a strictly increasing timeline of length N >= 2 and a query time
\* t with timeline[0] <= t <= timeline[N-1], the bracket search of tick gives
\* lo = prevIndex and hi = index with 0 <= lo < hi <= N-1, hi = lo + 1 and
\* timeline[lo] <= t <= timeline[hi].
C1_BracketWithinTimeline ==
    (/\ BracketComputed
     /\ N >= 2
     /\ StrictlyIncreasing(times)
     /\ times[1] <= call.newTime
     /\ call.newTime <= times[N])
    => LET lo == call.prevIndex
           hi == call.index
       IN  /\ 0 <= lo
           /\ lo < hi
           /\ hi <= N - 1
           /\ hi = lo + 1
           /\ times[lo + 1] <= call.newTime
           /\ call.newTime <= times[hi + 1]

\* C2: when the query time of a tick is greater than or equal to the last
\* sample timeline[N-1], the bracket is clamped to lo = N-2, hi = N-1 with
\* ratio 1.0 and no array is indexed at N or beyond.
C2_ClampedAtLastSample ==
    (/\ BracketComputed
     /\ N >= 2
     /\ call.newTime >= times[N])
    => /\ call.prevIndex = N - 2
       /\ call.index = N - 1
       /\ call.lerp_ratio = <<1, 1>>
       /\ \A r \in call.reads : r[2] < N

\* C3: when the query time of a tick is less than the first sample
\* timeline[0], the bracket is clamped to lo = 0, hi = 1 and no array is
\* indexed below 0: prevIndex = index - 1 does not underflow.
C3_ClampedAtFirstSample ==
    (/\ BracketComputed
     /\ N >= 2
     /\ call.newTime < times[1])
    => /\ call.prevIndex = 0
       /\ call.index = 1
       /\ call.prevIndex = call.index - 1
       /\ ReadsInRange

-----------------------------------------------------------------------------
(* Properties of the time advance of updateAnimation.                      *)

\* a + (b - a) * (t - ta) / (tb - ta) on every component
LerpAt(a, b, ta, tb, t) ==
    [c \in 1..3 |-> Frac(a[c] * (tb - t) + b[c] * (t - ta), tb - ta)]

\* C4: tick(deltaTime) sets currentTime to currentTime + deltaTime, less
\* timeline[N-1] once if the sum exceeds timeline[N-1], and the pose is
\* sampled at that wrapped time; with timeline [0,1,2], translation samples
\* [(0,0,0),(1,0,0),(2,0,0)] and currentTime = 1.5, tick(1.0) leaves
\* currentTime = 0.5 and returns translation (0.5,0,0), interpolated between
\* index 0 and 1.
C4_TickWrapsOnce ==
    [][(call'.op = "updateAnimation" /\ outcome' = "ok" /\ N >= 1)
       => LET sum == currentTime + call'.deltaTime
              duration == times[N]
              wrapped == IF sum > duration THEN sum - duration ELSE sum
          IN  /\ currentTime' = wrapped
              /\ call'.newTime = wrapped
              /\ (/\ N >= 2
                  /\ Len(translation) >= N
                  /\ times[1] <= wrapped
                  /\ wrapped < times[N])
                 => \E lo \in 1..(N - 1) :
                        /\ times[lo] <= wrapped
                        /\ wrapped < times[lo + 1]
                        /\ call'.retval = LerpAt(translation[lo], translation[lo + 1],
                                                 times[lo], times[lo + 1], wrapped)
              /\ (/\ times = <<0, 2, 4>>
                  /\ translation = <<(<<0, 0, 0>>), (<<2, 0, 0>>), (<<4, 0, 0>>)>>
                  /\ currentTime = 3
                  /\ call'.deltaTime = 2)
                 => /\ currentTime' = 1
                    /\ call'.prevIndex = 0
                    /\ call'.index = 1
                    /\ call'.retval = <<(<<1, 1>>), (<<0, 1>>), (<<0, 1>>)>>
      ]_vars

\* the tick of the example has returned: 1.5 + 1.0 wrapped to 0.5
C4_Witness ==
    /\ call.op = "updateAnimation"
    /\ outcome = "ok"
    /\ times = <<0, 2, 4>>
    /\ translation = <<(<<0, 0, 0>>), (<<2, 0, 0>>), (<<4, 0, 0>>)>>
    /\ call.deltaTime = 2
    /\ call.sum = 5
    /\ currentTime = 1
    /\ call.retval = <<(<<1, 1>>), (<<0, 1>>), (<<0, 1>>)>>

\* C5: a tick on an Animator whose timeline has fewer than 2 samples or
\* whose translation, rotation or scale is empty ends in a MissingData
\* error, reads no array element and leaves currentTime unchanged.
C5_MissingDataReported ==
    [][(/\ call'.op = "updateAnimation"
        /\ \/ N < 2
           \/ Len(translation) = 0
           \/ Len(rotation) = 0
           \/ Len(scale) = 0)
       => /\ outcome' = "MissingData"
          /\ call'.reads = {}
          /\ currentTime' = currentTime
      ]_vars

-----------------------------------------------------------------------------
(* Properties of the setters.                                              *)

\* C6: setTranslation, setRotation or setScales on an Animator whose channel
\* already holds data fails its assertion (the InvariantViolation) and
\* leaves the stored channel unchanged.
C6_SecondSetFails ==
    [][/\ (call'.op = "setTranslation" /\ Len(translation) > 0)
          => (outcome' = "AssertFailed" /\ translation' = translation)
       /\ (call'.op = "setRotation" /\ Len(rotation) > 0)
          => (outcome' = "AssertFailed" /\ rotation' = rotation)
       /\ (call'.op = "setScales" /\ Len(scale) > 0)
          => (outcome' = "AssertFailed" /\ scale' = scale)
      ]_vars

\* setTranslation was called with other samples on a loaded channel
C6_Witness ==
    /\ call.op = "setTranslation"
    /\ outcome = "AssertFailed"
    /\ Len(translation) > 0
    /\ Len(call.inTrans) > 0
    /\ call.inTrans # translation

\* C7: after the first setTimes call has bound a timeline (timelineIndex
\* is no longer -1), every later setTimes call whose sequence differs from
\* the bound one fails its assertion (the InvariantViolation), whatever
\* timeline index it passes.
C7_DifferingTimelineFails ==
    [][(/\ call'.op = "setTimes"
        /\ "setTimes" \in loaded
        /\ timelineIndex # -1
        /\ call'.inTimes # times)
       => outcome' = "AssertFailed"
      ]_vars

\* C8: after the first setTimes call has returned, the stored times
\* sequence is the same in every later state.
C8_TimelineSetOnce ==
    [][("setTimes" \in loaded) => times' = times]_vars

\* C9: in every reachable state each of translation, rotation and scale that
\* is non-empty has the length of the stored timeline.
C9_ChannelLengthsMatchTimeline ==
    /\ Len(translation) > 0 => Len(translation) = Len(times)
    /\ Len(rotation) > 0 => Len(rotation) = Len(times)
    /\ Len(scale) > 0 => Len(scale) = Len(times)

\* C10: for each of setTranslation, setRotation and setScales at most one
\* call ever succeeds on an Animator, whatever samples are passed.
C10_ChannelSetAtMostOnce ==
    [][\A op \in {"setTranslation", "setRotation", "setScales"} :
          (call'.op = op /\ outcome' = "ok") => op \notin loaded
      ]_vars

-----------------------------------------------------------------------------
(* Properties of the pose returned by updateAnimation.                     *)

\* the last call was updateAnimation, it returned, and its bracket lies
\* inside the timeline and the translation channel
ReturnedInRange ==
    /\ call.op = "updateAnimation"
    /\ outcome = "ok"
    /\ InRange(times, call.prevIndex)
    /\ InRange(times, call.index)
    /\ InRange(translation, call.prevIndex)
    /\ InRange(translation, call.index)

\* C11: for a tick whose bracket (lo, hi) is in range, the translation of
\* the returned pose is a + (b - a) * t on every component, a =
\* translation[lo], b = translation[hi], t = (newTime - timeline[lo]) /
\* (timeline[hi] - timeline[lo]).
C11_TranslationIsLerp ==
    ReturnedInRange
    => LET lo == call.prevIndex + 1
           hi == call.index + 1
           a == translation[lo]
           b == translation[hi]
           num == currentTime - times[lo]
           den == times[hi] - times[lo]
       IN  call.retval = [c \in 1..3 |-> Frac(a[c] * den + (b[c] - a[c]) * num, den)]

\* a tick returned a pose a quarter of the way between two different samples
C11_Witness ==
    /\ ReturnedInRange
    /\ call.lerp_ratio = <<1, 4>>
    /\ call.retval[2] = <<1, 2>>

\* every channel holds one sample per timeline entry, at least two
FullyPopulated ==
    /\ N >= 2
    /\ Len(translation) = N
    /\ Len(scale) = N
    /\ Len(rotation) = N

\* C12: updateAnimation samples all three channels, so an Animator that
\* differs from this one only in its scale samples, or only in its rotation
\* samples, returns a different pose for the same tick.
C12_PoseDependsOnScaleAndRotation ==
    (Alive /\ FullyPopulated)
    => \A d \in Deltas : \A run \in UpdateAnimationRuns(d) :
         (run.outcome = "ok" /\ InRange(times, run.call.prevIndex) /\ InRange(times, run.call.index))
         => LET otherScale == [This EXCEPT !.scale = [i \in 1..N |-> <<2, 2, 2>>]]
                otherRotation == [This EXCEPT !.rotation = [i \in 1..N |-> <<0, 0, 0, 2>>]]
            IN  /\ otherScale.scale # scale
                /\ otherRotation.rotation # rotation
                /\ \A r \in UpdateAnimationRunsOf(otherScale, d) : r.call.retval # run.call.retval
                /\ \A r \in UpdateAnimationRunsOf(otherRotation, d) : r.call.retval # run.call.retval

\* C13: on a fully populated track the interpolation ratio of every tick,
\* (newTime - timeline[lo]) / (timeline[hi] - timeline[lo]), lies in [0, 1],
\* whatever currentTime and deltaTime are.
C13_RatioWithinUnitInterval ==
    (call.op = "updateAnimation" /\ call.line >= 28 /\ FullyPopulated)
    => /\ call.lerp_ratio # NonFinite
       /\ 0 <= call.lerp_ratio[1]
       /\ call.lerp_ratio[1] <= call.lerp_ratio[2]

\* C14: a newly created Animator has currentTime = 0, so that its first
\* tick samples the track at deltaTime before the wrap.
C14_StartsAtZero == call.op = "Animator" => currentTime = 0

\* C20: with a strictly increasing timeline of N >= 2 entries, channels of
\* N samples, currentTime in [0, timeline[N-1]] before the tick and
\* 0 <= deltaTime <= timeline[N-1], updateAnimation reads times[] and
\* translation[] only at indices 0..N-1.
C20_TicksWithinPeriodStayInRange ==
    (/\ call.op = "updateAnimation"
     /\ FullyPopulated
     /\ StrictlyIncreasing(times)
     /\ 0 <= call.sum - call.deltaTime
     /\ call.sum - call.deltaTime <= times[N]
     /\ 0 <= call.deltaTime
     /\ call.deltaTime <= times[N])
    => \A r \in call.reads : 0 <= r[2] /\ r[2] <= N - 1

\* C15: updateAnimation changes only currentTime: the timeline, the timeline
\* index and the translation, rotation and scale arrays are the same after
\* the call as before it.
C15_TickChangesOnlyCurrentTime ==
    [][call'.op = "updateAnimation"
       => /\ times' = times
          /\ timelineIndex' = timelineIndex
          /\ translation' = translation
          /\ rotation' = rotation
          /\ scale' = scale]_vars

\* a tick on a fully populated track returned and moved currentTime past
\* the first interval
C15_Witness ==
    /\ call.op = "updateAnimation"
    /\ outcome = "ok"
    /\ FullyPopulated
    /\ call.prevIndex = 1
    /\ currentTime # call.sum - call.deltaTime

-----------------------------------------------------------------------------
(* Properties of repeated setTimes calls.                                  *)

\* C16: a setTimes call that repeats the call before it, with the same
\* timeline index and an identical sequence, succeeds silently and changes
\* nothing: the stored timeline, the timeline index, the channels and
\* currentTime stay as they were.
C16_RepeatedSetTimesIsNoOp ==
    [][(/\ call.op = "setTimes"
        /\ outcome = "ok"
        /\ call'.op = "setTimes"
        /\ call'.inTimelineIndex = call.inTimelineIndex
        /\ call'.inTimes = call.inTimes)
       => /\ outcome' = "ok"
          /\ times' = times
          /\ timelineIndex' = timelineIndex
          /\ translation' = translation
          /\ rotation' = rotation
          /\ scale' = scale
          /\ currentTime' = currentTime]_vars

\* a setTimes call found the timeline it was given already stored, and
\* returned
C16_Witness ==
    /\ call.op = "setTimes"
    /\ call.line = 59
    /\ outcome = "ok"
    /\ call.inTimelineIndex = timelineIndex
    /\ call.inTimes = times
    /\ Len(times) >= 2

-----------------------------------------------------------------------------
(* Properties of several Animator objects.                                 *)

\* C17: two Animator objects holding the same keyframe data, ticked in any
\* interleaving, do not affect each other: a step of one never changes the
\* other's currentTime, timeline or channels, nor the Animator they were
\* copied from, and a call returns what it would return on an object ticked
\* alone, an execution of updateAnimation from the object's own members.
C17_InstancesIndependent ==
    [][/\ pair' # pair => This' = This
       /\ \A i \in Instances :
           /\ (pair[i].constructed /\ \E j \in Instances \ {i} : pair'[j] # pair[j])
              => pair'[i] = pair[i]
           /\ (pair[i].pending # {} /\ pair'[i].pending = {})
              => \E run \in pair[i].pending :
                    /\ run \in UpdateAnimationRunsOf(pair[i], run.call.deltaTime)
                    /\ pair'[i].currentTime = run.currentTime]_vars

\* both objects are inside an updateAnimation call at once, on a loaded
\* track, after earlier calls have left them at different times
C17_Witness ==
    /\ outcome = "ok"
    /\ \A i \in Instances :
        /\ pair[i].constructed
        /\ pair[i].pending # {}
        /\ Len(pair[i].times) >= 2
        /\ Len(pair[i].translation) = Len(pair[i].times)
    /\ pair[1].currentTime # pair[2].currentTime

-----------------------------------------------------------------------------
(* Properties of Transform.                                                *)

\* the image of the point p under the affine matrix m
ApplyPoint(m, p) ==
    [r \in 1..3 |-> Half(m[1][r] * p[1] + m[2][r] * p[2] + m[3][r] * p[3]) + m[4][r]]

\* the vector v turned by the rotation matrix of q
Rotate(q, v) ==
    LET m == Mat3Cast(q)
    IN  [r \in 1..3 |-> Half(m[1][r] * v[1] + m[2][r] * v[2] + m[3][r] * v[3])]

\* the origin, the unit points and one more: they determine an affine map
TestPoints == {<<0, 0, 0>>, <<2, 0, 0>>, <<0, 2, 0>>, <<0, 0, 2>>, <<2, 4, 6>>}

\* C18: toMaterix4 returns T * R * S, the matrix that scales a point, then
\* rotates it, then translates it; it leaves scale, rotation and translation
\* as they were; on scale 1, the identity rotation and translation 0 it
\* returns the identity matrix.
C18_MatrixIsTRS ==
    [][call'.op = "toMaterix4"
       => LET t == transforms[call'.self]
              m == call'.retval
          IN  /\ transforms' = transforms
              /\ \A p \in TestPoints :
                    ApplyPoint(m, p)
                      = VecAdd(t.translation, Rotate(t.rotation, VecMul(t.scale, p)))
              /\ \A c \in 1..4 : m[c][4] = IF c = 4 THEN 2 ELSE 0
              /\ (t.scale = <<2, 2, 2>> /\ t.rotation = IdentityQuat
                    /\ t.translation = <<0, 0, 0>>)
                 => m = IdentityMat4]_vars

\* toMaterix4 returned for a transform whose rotation permutes the axes,
\* whose scale differs on each axis and whose translation is not zero
C18_Witness ==
    /\ call.op = "toMaterix4"
    /\ transforms[call.self].rotation = <<1, 1, 1, 1>>
    /\ transforms[call.self].scale = <<2, 4, 6>>
    /\ transforms[call.self].translation = <<1, 2, 3>>

\* C19: accumulate(other) is a pure function: it leaves both the receiver
\* and the argument unchanged.
C19_AccumulateIsPure ==
    [][call'.op = "accumulate" => transforms' = transforms]_vars

\* C19, as the code has it: accumulate(in) returns nothing and updates the
\* receiver in place: its rotation becomes rotation * in.rotation scaled to
\* unit length (the identity when the product is zero), its scale the
\* component-wise product, its translation the sum; every other transform,
\* the argument included unless it is the receiver itself, is unchanged.
C19_AccumulateInPlace ==
    [][call'.op = "accumulate"
       => LET a == transforms[call'.self]
              b == transforms[call'.in]
              r == transforms'[call'.self]
              p == QuatMul(a.rotation, b.rotation)
          IN  /\ r.scale = [c \in 1..3 |-> (a.scale[c] * b.scale[c]) \div 2]
              /\ r.translation = [c \in 1..3 |-> a.translation[c] + b.translation[c]]
              /\ IF QuatDot(p) = 0
                 THEN r.rotation = IdentityQuat
                 ELSE /\ QuatDot(r.rotation) = 4
                      /\ \E len \in 1..QuatDot(p) :
                            /\ len * len = QuatDot(p)
                            /\ \A c \in 1..4 : r.rotation[c] * len = 2 * p[c]
              /\ \A k \in TransformIds \ {call'.self} : transforms'[k] = transforms[k]]_vars

\* an accumulate call with another transform as its argument has left the
\* receiver with a scale, a rotation and a translation no constructor or
\* setter was given
C19_Witness ==
    /\ call.op = "accumulate"
    /\ call.self # call.in
    /\ transforms[call.self].scale = <<2, 8, 18>>
    /\ transforms[call.self].rotation = <<-1, 1, 1, 1>>
    /\ transforms[call.self].translation = <<2, 4, 6>>
    /\ transforms[call.in].rotation = <<2, 2, 2, 2>>

\* the rotations keep a length of 0, 1 or 2 and the scales stay whole
\* numbers, so that the halvings and the square roots above are exact
TransformArithmeticExact ==
    \A i \in TransformIds :
        /\ QuatDot(transforms[i].rotation) \in {0, 4, 16}
        /\ \A c \in 1..3 : transforms[i].scale[c] % 2 = 0

-----------------------------------------------------------------------------
(* Properties of long and of split ticks.                                  *)

\* the last call was updateAnimation on a non-empty timeline, it returned,
\* its deltaTime exceeds the duration and currentTime was not negative
\* before it
LongTickReturned ==
    /\ call.op = "updateAnimation"
    /\ outcome = "ok"
    /\ N >= 1
    /\ call.deltaTime > times[N]
    /\ call.sum - call.deltaTime >= 0

\* C21: after a tick with deltaTime larger than the duration timeline[N-1],
\* from a currentTime >= 0, the duration has been subtracted once only and
\* currentTime is still out of range, greater than timeline[N-1].
C21_LongTickLeavesRange == LongTickReturned => currentTime > times[N]

\* C21, as the code has it: such a tick subtracts the duration exactly once,
\* currentTime is the sum less timeline[N-1], and it is greater than
\* timeline[N-1] exactly when the sum exceeds twice timeline[N-1]; a
\* deltaTime between one duration and two can end in range.
C21_LongTickWrapsOnce ==
    LongTickReturned
    => /\ currentTime = call.sum - times[N]
       /\ currentTime > 0
       /\ currentTime > times[N] <=> call.sum > 2 * times[N]

\* a tick longer than a duration of at least one unit returned and left
\* currentTime beyond the last sample
C21_Witness ==
    /\ LongTickReturned
    /\ times[N] >= 2
    /\ currentTime > times[N]

\* C22: for a strictly increasing timeline, a first sample greater than 0
\* included, a tick with 0 <= deltaTime <= timeline[N-1] from a currentTime
\* in [timeline[0], timeline[N-1]] leaves currentTime in that range again.
C22_RangePreserved ==
    (/\ call.op = "updateAnimation"
     /\ N >= 1
     /\ StrictlyIncreasing(times)
     /\ times[1] <= call.sum - call.deltaTime
     /\ call.sum - call.deltaTime <= times[N]
     /\ 0 <= call.deltaTime
     /\ call.deltaTime <= times[N])
    => (times[1] <= currentTime /\ currentTime <= times[N])

-----------------------------------------------------------------------------
(* Properties of the ratio on timelines with repeated samples.             *)

\* s[i] <= s[i + 1] throughout
Sorted(s) == \A i \in 1..(Len(s) - 1) : s[i] <= s[i + 1]

\* C23: the ratio is never a division by zero: on a sorted timeline, two
\* equal adjacent samples included, whenever prevIndex and index are in
\* range, timeline[index] - timeline[prevIndex] is strictly positive and the
\* ratio is finite; a span of length zero is never the bracket.
C23_SpanIsPositive ==
    (/\ call.op = "updateAnimation"
     /\ call.line >= 25
     /\ Sorted(times)
     /\ InRange(times, call.prevIndex)
     /\ InRange(times, call.index))
    => /\ times[call.index + 1] - times[call.prevIndex + 1] > 0
       /\ times[call.prevIndex + 1] <= call.newTime
       /\ call.newTime < times[call.index + 1]
       /\ call.line >= 28 => call.lerp_ratio # NonFinite

\* a tick looked up the time of two equal adjacent samples and found its
\* bracket in range
C23_Witness ==
    /\ call.op = "updateAnimation"
    /\ call.line >= 28
    /\ InRange(times, call.prevIndex)
    /\ InRange(times, call.index)
    /\ \E i \in 1..(N - 1) : times[i] = times[i + 1] /\ call.newTime = times[i]

-----------------------------------------------------------------------------
(* Properties of consecutive ticks.                                        *)

\* the last two calls were updateAnimation(a) then updateAnimation(b), both
\* returned, on a non-empty timeline, from a currentTime in
\* [0, timeline[N-1]], with a, b >= 0 and currentTime + a + b at most twice
\* timeline[N-1]
SplitTicksReturned ==
    /\ call.op = "updateAnimation"
    /\ outcome = "ok"
    /\ previous.op = "updateAnimation"
    /\ previous.line = 45
    /\ N >= 1
    /\ previous.deltaTime >= 0
    /\ call.deltaTime >= 0
    /\ 0 <= previous.sum - previous.deltaTime
    /\ previous.sum - previous.deltaTime <= times[N]
    /\ previous.sum + call.deltaTime <= 2 * times[N]

\* C24: playback does not depend on how elapsed time is split into ticks:
\* tick(a) followed by tick(b) leaves the currentTime that a single
\* tick(a + b) from the same start leaves, whenever that tick returns.
C24_SplitTicksAgree ==
    SplitTicksReturned
    => LET start == [This EXCEPT !.currentTime = previous.sum - previous.deltaTime]
           single == {run \in UpdateAnimationRunsOf(start, previous.deltaTime + call.deltaTime) :
                        run.outcome = "ok"}
       IN  /\ single # {}
           /\ \A run \in single : run.currentTime = currentTime

\* two positive ticks returned in a row, the first one wrapped past the end
\* of a timeline of two samples or more
C24_Witness ==
    /\ SplitTicksReturned
    /\ N >= 2
    /\ previous.deltaTime > 0
    /\ call.deltaTime > 0
    /\ previous.newTime # previous.sum

====
